---- MODULE Spec2Model ----
(***************************************************************************)
(* Model of result_comparison.py: vertical_result_comparison draws theory  *)
(* bands, measurement rows and group separators on a new pyplot figure,    *)
(* saves the current figure and closes it.                                 *)
(*                                                                         *)
(* Units.  x coordinates are integers in units of 1e-6 (0.229 is 229000),  *)
(* so that the 2%, 1% and 0.5% offsets of the axis span are exact.         *)
(* y coordinates are integers in hundredths of a row (row 3 is 300,        *)
(* 3 - 0.15 is 285).  A text is a sequence of string tokens.               *)
(***************************************************************************)
EXTENDS Integers, Sequences, FiniteSets, TLC

\* ---- bounds of the model ----
MaxN == 3
MaxBands == 2
MaxSeps == 1
MaxCalls == 2

\* ---- inputs ----
ValidModes == {"right", "below", "outside", "outside_below"}

LayoutModes == ValidModes \cup {"bogus"}

Measurements ==
    { [name |-> "CMS 13 TeV", value |-> 231570, uncertainty |-> 310,
       color |-> "red", marker_style |-> "o", is_public |-> TRUE],
      [name |-> "ATLAS 8 TeV", value |-> 231400, uncertainty |-> 360,
       color |-> "blue", marker_style |-> "o", is_public |-> FALSE] }

Bands ==
    { [label |-> "SM", val |-> 231610, err |-> 40, color |-> "#FFA500"],
      [label |-> "2H", val |-> 231100, err |-> 100, color |-> "#1EA5FF"] }

XRanges == { <<229000, 234000>> }

OutputNames == {"my_test_v1", "my_test_v2"}

OutputExtensions == {"pdf"}

SeqsUpTo(S, n) == UNION { [1..k -> S] : k \in 0..n }

\* group_separators: None, or a list of indices (a list may be empty)
GroupSeparators ==
    { [is_none |-> TRUE, idx |-> <<>>] }
      \cup { [is_none |-> FALSE, idx |-> s] : s \in SeqsUpTo(0..MaxN, MaxSeps) }

AllInputs ==
    [ xr : XRanges,
      results : SeqsUpTo(Measurements, MaxN),
      theory_bands : SeqsUpTo(Bands, MaxBands),
      output_name : {"my_test_v1"},
      group_separators : GroupSeparators,
      layout_mode : LayoutModes,
      second_theory : BOOLEAN,
      output_extension : OutputExtensions ]

\* the inputs of the call sequences: short lists, one valid and one unknown mode
SeqInputs ==
    [ xr : XRanges,
      results : SeqsUpTo(Measurements, 1),
      theory_bands : SeqsUpTo({b \in Bands : b.label = "SM"}, 1),
      output_name : OutputNames,
      group_separators : { [is_none |-> TRUE, idx |-> <<>>],
                           [is_none |-> FALSE, idx |-> <<1>>] },
      layout_mode : {"right", "bogus"},
      second_theory : {FALSE},
      output_extension : OutputExtensions ]

NoInput ==
    [ xr |-> <<0, 0>>, results |-> <<>>, theory_bands |-> <<>>,
      output_name |-> "", group_separators |-> [is_none |-> TRUE, idx |-> <<>>],
      layout_mode |-> "right", second_theory |-> FALSE, output_extension |-> "" ]

\* ---- state ----
VARIABLES
    figs,      \* pyplot's registry of open figures, oldest first, last is current
    files,     \* the file system: path -> saved figure
    call,      \* the arguments of the last call
    outcome,   \* "none" before any call, then "returned" or "ValueError"
    fig,       \* the local fig/ax of the last call as it was when the call ended
    written,   \* the paths the last call wrote, in order
    calls      \* number of calls made

vars == <<figs, files, call, outcome, fig, written, calls>>

\* ---- pure helpers ----
x_min(in) == in.xr[1]

x_max(in) == in.xr[2]

\* (x_max - x_min) * (permille / 1000)
SpanFraction(in, permille) == ((x_max(in) - x_min(in)) * permille) \div 1000

outside_offset(in) == SpanFraction(in, 20)

label_offset(in) == SpanFraction(in, 10)

value_offset(in) == SpanFraction(in, 5)

\* f"{v:.5f}": five decimals, i.e. rounded to a multiple of 10 units
Fmt5(v) == ToString((v + 5) \div 10)

\* f"{value:.5f} ± {uncertainty:.5f}"
PlusMinus(v, e) == <<Fmt5(v), "±", Fmt5(e)>>

Reverse(s) == [i \in 1..Len(s) |-> s[Len(s) + 1 - i]]

Text(x, y, s, ha, va, fontsize, color, fontweight) ==
    [x |-> x, y |-> y, s |-> s, ha |-> ha, va |-> va,
     fontsize |-> fontsize, color |-> color, fontweight |-> fontweight]

AddText(f, t) == [f EXCEPT !.texts = Append(@, t)]

\* ---- pyplot's figure registry ----
NextNum(reg) ==
    IF reg = <<>> THEN 1
    ELSE 1 + CHOOSE m \in {reg[i].num : i \in 1..Len(reg)} :
                 \A i \in 1..Len(reg) : reg[i].num <= m

\* a new empty figure with one empty axes
NewFigure(num, figsize) ==
    [num |-> num, figsize |-> figsize,
     xlim |-> <<0, 0>>, xticks |-> <<>>, ylim |-> <<0, 0>>, xlabel |-> "",
     spans |-> <<>>, texts |-> <<>>, errorbars |-> <<>>, hlines |-> <<>>,
     tight |-> FALSE]

\* plt.gcf(): the current figure is the last one of the registry
Gcf(reg) == reg[Len(reg)]

\* a figure is one object: what is drawn through the local fig/ax shows in the registry
PutFig(reg, f) == [i \in 1..Len(reg) |-> IF reg[i].num = f.num THEN f ELSE reg[i]]

\* a plausible slip: draw on the current figure when one is open (plt.gcf())
SubplotsOnCurrent(reg, n) ==
    IF reg = <<>> THEN Append(reg, NewFigure(NextNum(reg), <<800, 50 * n + 100>>))
    ELSE reg

\* fig, ax = plt.subplots(figsize=(8, 0.5 * n + 1)): a new figure, made current
Subplots(reg, n) == Append(reg, NewFigure(NextNum(reg), <<800, 50 * n + 100>>))

\* set_xlim, set_xticks(np.linspace(x_min, x_max, 3)), set_ylim(-0.5, n - 0.5), set_xlabel
SetupAxes(f, in, n) ==
    [f EXCEPT !.xlim = <<x_min(in), x_max(in)>>,
              !.xticks = <<x_min(in), (x_min(in) + x_max(in)) \div 2, x_max(in)>>,
              !.ylim = <<-50, n * 100 - 50>>,
              !.xlabel = "observable"]

OutputPath(in) == <<in.output_name, ".", in.output_extension>>

\* plt.savefig(path): writes the current figure
SaveFig(reg, fs, path) ==
    [p \in (DOMAIN fs) \cup {path} |-> IF p = path THEN Gcf(reg) ELSE fs[p]]

\* plt.close(): closes the current figure
Close(reg) == IF reg = <<>> THEN reg ELSE SubSeq(reg, 1, Len(reg) - 1)

\* ---- theory bands (lines 42-57) ----
\* a slip: every band passes its label to axvspan
SpanLabelAlways(i, label) == <<label>>

\* label=label if i == 0 else None; None is the empty sequence
SpanLabel(i, label) == IF i = 0 THEN <<label>> ELSE <<>>

\* a slip: "or" for "and"
IsSecondTheoryOr(i, second_theory) == i = 1 \/ second_theory

\* if i == 1 and second_theory
IsSecondTheory(i, second_theory) == i = 1 /\ second_theory

\* one iteration of the loop over enumerate(theory_bands); i is 0-based
BandStep(f, in, n, i, b) ==
    LET x_mid == ((b.val - b.err) + (b.val + b.err)) \div 2
        f1 == [f EXCEPT !.spans = Append(@,
                  [lo |-> b.val - b.err, hi |-> b.val + b.err, color |-> b.color,
                   alpha |-> 85, label |-> SpanLabel(i, b.label)])]
        f2 == IF IsSecondTheory(i, in.second_theory)
              THEN AddText(f1, Text(x_mid + 100, n * 100 - 40,
                                    PlusMinus(b.val, b.err) \o <<b.label>>,
                                    "right", "bottom", 13, b.color, "normal"))
              ELSE AddText(f1, Text(x_mid, n * 100 - 40, <<b.label>>,
                                    "center", "bottom", 13, b.color, "normal"))
    IN  IF i = 0
        THEN IF in.layout_mode \in {"outside"}
             THEN AddText(f2, Text(x_max(in) + outside_offset(in), n * 100 - 40,
                                   PlusMinus(b.val, b.err),
                                   "left", "bottom", 13, b.color, "normal"))
             ELSE AddText(f2, Text(x_max(in), n * 100 - 40,
                                   PlusMinus(b.val, b.err),
                                   "right", "bottom", 13, b.color, "normal"))
        ELSE f2

RECURSIVE DrawTheoryBandsFrom(_, _, _, _)
DrawTheoryBandsFrom(f, in, n, i) ==
    IF i >= Len(in.theory_bands) THEN f
    ELSE DrawTheoryBandsFrom(BandStep(f, in, n, i, in.theory_bands[i + 1]), in, n, i + 1)

DrawTheoryBands(f, in, n) == DrawTheoryBandsFrom(f, in, n, 0)

\* ---- measurements (lines 60-86) ----
\* a slip: the list is traversed in input order
NotReversed(s) == s

\* reversed(results)
Reversed(s) == Reverse(s)

\* ax.errorbar(value, y, xerr=uncertainty, fmt=marker_style, ...)
AddErrorbar(f, y, m) ==
    [f EXCEPT !.errorbars = Append(@,
        [x |-> m.value, y |-> y, xerr |-> m.uncertainty,
         fmt |-> m.marker_style, color |-> m.color])]

\* the layout_mode dispatch of one row: the texts of a known mode, or the raise
RowTexts(f, in, y, m) ==
    LET pm == PlusMinus(m.value, m.uncertainty)
        two(t1, t2) == [fig |-> AddText(AddText(f, t1), t2), raised |-> FALSE]
    IN  IF in.layout_mode = "right"
        THEN two(Text(x_min(in) + label_offset(in), y, <<m.name>>,
                      "left", "center", 13, "black", "bold"),
                 Text(x_max(in) - value_offset(in), y, pm,
                      "right", "center", 13, "black", "normal"))
        ELSE IF in.layout_mode = "below"
        THEN two(Text(x_min(in) + label_offset(in), y + 10, <<m.name>>,
                      "left", "center", 13, "black", "bold"),
                 Text(x_min(in) + label_offset(in) + SpanFraction(in, 20), y - 15, pm,
                      "left", "top", 13, "black", "normal"))
        ELSE IF in.layout_mode = "outside"
        THEN two(Text(x_min(in) - SpanFraction(in, 20), y, <<m.name>>,
                      "right", "center", 14, "black", "bold"),
                 Text(x_max(in) + SpanFraction(in, 20), y, pm,
                      "left", "center", 14, "black", "normal"))
        ELSE IF in.layout_mode = "outside_below"
        THEN two(Text(x_min(in) - SpanFraction(in, 20), y + 10, <<m.name>>,
                      "right", "center", 13, "black", "bold"),
                 Text(x_min(in) - SpanFraction(in, 20), y - 20, pm,
                      "right", "top", 13, "black", "normal"))
        ELSE [fig |-> f, raised |-> TRUE]

\* a slip the other way: the mode is checked before the point is drawn
ResultStepCheckFirst(f, in, i, m) ==
    IF in.layout_mode \in ValidModes
    THEN RowTexts(AddErrorbar(f, i * 100, m), in, i * 100, m)
    ELSE [fig |-> f, raised |-> TRUE]

\* a slip: the last branch is missing, 'outside_below' falls to the raise
ResultStepThreeModes(f, in, i, m) ==
    IF in.layout_mode = "outside_below"
    THEN [fig |-> AddErrorbar(f, i * 100, m), raised |-> TRUE]
    ELSE RowTexts(AddErrorbar(f, i * 100, m), in, i * 100, m)

\* one iteration of the loop over enumerate(reversed(results)): y = i, the
\* error bar is drawn first, then the texts of the mode or the ValueError
ResultStep(f, in, i, m) == RowTexts(AddErrorbar(f, i * 100, m), in, i * 100, m)

RECURSIVE DrawResultsFrom(_, _, _, _)
DrawResultsFrom(f, in, rev, i) ==
    IF i >= Len(rev) THEN [fig |-> f, raised |-> FALSE]
    ELSE LET r == ResultStep(f, in, i, rev[i + 1])
         IN  IF r.raised THEN r ELSE DrawResultsFrom(r.fig, in, rev, i + 1)

DrawResults(f, in) == DrawResultsFrom(f, in, Reversed(in.results), 0)

\* ---- group separators (lines 89-92) ----
\* a slip: the separator drawn one row lower, below measurement sep_index
SepYBelow(n, sep_index) == (n - sep_index) * 100 - 150

\* a slip: the index is not mapped into the reversed rows
SepYUnreversed(n, sep_index) == sep_index * 100 - 50

\* y_sep = n - sep_index - 0.5
SepY(n, sep_index) == (n - sep_index) * 100 - 50

RECURSIVE DrawSeparatorsFrom(_, _, _, _)
DrawSeparatorsFrom(f, seps, n, j) ==
    IF j > Len(seps) THEN f
    ELSE DrawSeparatorsFrom(
             [f EXCEPT !.hlines = Append(@,
                 [y |-> SepY(n, seps[j]), linestyle |-> "--", color |-> "gray",
                  linewidth |-> 1, alpha |-> 50])],
             seps, n, j + 1)

\* if group_separators: (None and the empty list are both false)
DrawSeparators(f, in, n) ==
    IF in.group_separators.is_none \/ in.group_separators.idx = <<>> THEN f
    ELSE DrawSeparatorsFrom(f, in.group_separators.idx, n, 1)

\* ax.set_title(""); fig.tight_layout()
Finalise(f) == [f EXCEPT !.tight = TRUE]

\* ---- the call ----
Init ==
    /\ figs = <<>>
    /\ files = [p \in {} |-> NewFigure(0, <<0, 0>>)]
    /\ call = NoInput
    /\ outcome = "none"
    /\ fig = NewFigure(0, <<0, 0>>)
    /\ written = <<>>
    /\ calls = 0

\* vertical_result_comparison(...) from entry to return or raise.
\*   reg0: the registry after plt.subplots; r: the figure after both drawing loops
\*   and whether the loop over the measurements raised; f3: the figure after the
\*   separators, set_title and tight_layout; reg1: the registry holding f3
Call(in) ==
    \E reg0 \in {Subplots(figs, Len(in.results))} :
    \E r \in {DrawResults(DrawTheoryBands(SetupAxes(Gcf(reg0), in, Len(in.results)), in, Len(in.results)), in)} :
    \E f3 \in {Finalise(DrawSeparators(r.fig, in, Len(in.results)))} :
    \E reg1 \in {PutFig(reg0, f3)} :
        /\ call' = in
        /\ calls' = calls + 1
        /\ IF r.raised
           THEN /\ outcome' = "ValueError"
                /\ fig' = r.fig
                /\ figs' = PutFig(reg0, r.fig)
                /\ written' = <<>>
                /\ UNCHANGED files
           ELSE /\ outcome' = "returned"
                /\ fig' = f3
                /\ files' = SaveFig(reg1, files, OutputPath(in))
                /\ written' = <<OutputPath(in)>>
                /\ figs' = Close(reg1)

\* one call in a fresh interpreter, over all inputs
FirstCall == calls = 0 /\ \E in \in AllInputs : Call(in)

Next == FirstCall

Spec == Init /\ [][Next]_vars

\* a sequence of calls in one interpreter
NextCall == calls < MaxCalls /\ \E in \in SeqInputs : Call(in)

NextSeq == NextCall

SpecSeq == Init /\ [][NextSeq]_vars

\* ---- what the claims speak about ----
N == Len(call.results)

Called == calls > 0

ValidMode == call.layout_mode \in ValidModes

SepCount ==
    IF call.group_separators.is_none THEN 0 ELSE Len(call.group_separators.idx)

\* texts the loop over the theory bands adds: one per band, one more for band 0
BandTextCount ==
    Len(call.theory_bands) + (IF call.theory_bands = <<>> THEN 0 ELSE 1)

\* the midpoint annotation of band i (0-based): band 0 adds two texts, the others one
MidText(i) == fig.texts[IF i = 0 THEN 1 ELSE i + 2]

ContainsPlusMinus(s, b) ==
    \E a \in 1..(Len(s) - 2) : SubSeq(s, a, a + 2) = PlusMinus(b.val, b.err)

\* the row of the error-bar point of the measurement at 0-based input index k:
\* the points are drawn in reversed input order
RowOf(k) == fig.errorbars[N - k].y

\* C1: a call with an unknown layout_mode fails with ValueError and writes no
\* file, whatever the measurement list is.
C1_UnknownModeRaises ==
    (Called /\ ~ValidMode) => (outcome = "ValueError" /\ written = <<>>)

\* C2: with a non-empty measurement list and a valid layout_mode the call
\* returns, and writes exactly one file, at output_name.output_extension, that
\* holds every band, measurement and separator.
C2_ValidCallWritesOneFile ==
    (Called /\ N >= 1 /\ ValidMode) =>
        /\ outcome = "returned"
        /\ written = <<OutputPath(call)>>
        /\ OutputPath(call) \in DOMAIN files
        /\ LET saved == files[OutputPath(call)]
           IN  /\ Len(saved.spans) = Len(call.theory_bands)
               /\ Len(saved.errorbars) = N
               /\ Len(saved.texts) = BandTextCount + 2 * N
               /\ Len(saved.hlines) = SepCount
               /\ saved.tight

C2_Witness ==
    /\ Called /\ N >= 2 /\ call.layout_mode = "outside_below"
    /\ call.theory_bands # <<>> /\ SepCount >= 1
    /\ outcome = "returned" /\ written = <<OutputPath(call)>>

\* C3 as stated: when the ValueError is raised every theory band has been
\* drawn and no error-bar point and no measurement text has been added.
C3_RaisedBeforeAnyMeasurement ==
    outcome = "ValueError" =>
        /\ Len(fig.spans) = Len(call.theory_bands)
        /\ fig.errorbars = <<>>
        /\ Len(fig.texts) = BandTextCount

\* C3 amended: when the ValueError is raised every theory band has been drawn
\* and exactly one error-bar point has been added, that of the last input
\* measurement at row 0; no measurement text and no divider has been added.
C3_RaisedAfterFirstErrorbar ==
    outcome = "ValueError" =>
        /\ ~ValidMode
        /\ Len(fig.spans) = Len(call.theory_bands)
        /\ Len(fig.texts) = BandTextCount
        /\ fig.hlines = <<>>
        /\ Len(fig.errorbars) = 1
        /\ fig.errorbars[1].y = 0
        /\ fig.errorbars[1].x = call.results[N].value
        /\ fig.errorbars[1].xerr = call.results[N].uncertainty

C3_Witness ==
    /\ outcome = "ValueError" /\ N >= 2 /\ Len(call.theory_bands) >= 2
    /\ call.results[1] # call.results[N]

\* C4: after any sequence of calls, returned or failed, no figure opened by
\* vertical_result_comparison is still open.
C4_NoFigureLeftOpen == Called => figs = <<>>

\* C5: with n >= 1 measurements and a valid layout_mode, the measurement at
\* 0-based input index k has its error-bar point at row n - 1 - k, and no two
\* points share a row.
C5_RowIsReversedIndex ==
    (outcome = "returned" /\ ValidMode /\ N >= 1) =>
        /\ Len(fig.errorbars) = N
        /\ \A k \in 0..(N - 1) :
             \E j \in 1..N :
                /\ fig.errorbars[j].y = (N - 1 - k) * 100
                /\ fig.errorbars[j].x = call.results[k + 1].value
                /\ fig.errorbars[j].xerr = call.results[k + 1].uncertainty
                /\ \A j2 \in 1..N : fig.errorbars[j2].y = fig.errorbars[j].y => j2 = j

C5_Witness ==
    /\ outcome = "returned" /\ ValidMode /\ N >= 2
    /\ call.results[1].value # call.results[N].value
    /\ \E j \in 1..Len(fig.errorbars) :
          fig.errorbars[j].y = (N - 1) * 100 /\ fig.errorbars[j].x = call.results[1].value

\* C6: with a valid layout_mode each index k of group_separators gives one
\* divider at y = n - k - 0.5, in every mode; None or an empty list gives none.
C6_SeparatorY ==
    (outcome = "returned" /\ ValidMode) =>
        /\ Len(fig.hlines) = SepCount
        /\ \A j \in 1..SepCount :
             fig.hlines[j].y = (N - call.group_separators.idx[j]) * 100 - 50

C6_Witness ==
    /\ outcome = "returned" /\ ValidMode /\ N >= 2 /\ SepCount >= 1
    /\ call.group_separators.idx[1] = 0
    /\ fig.hlines[1].y = N * 100 - 50

C8_OnlyFirstBandLabelled ==
    (Called /\ call.theory_bands # <<>>) =>
        /\ Len(fig.spans) = Len(call.theory_bands)
        /\ fig.spans[1].label = <<call.theory_bands[1].label>>
        /\ \A i \in 2..Len(call.theory_bands) : fig.spans[i].label = <<>>

C8_Witness ==
    /\ Called /\ Len(call.theory_bands) >= 2 /\ call.second_theory
    /\ call.layout_mode = "outside"
    /\ fig.spans[1].label # <<>> /\ fig.spans[2].label = <<>>

\* C9: the midpoint annotation of band i holds the band's value ± uncertainty
\* exactly when i = 1 and second_theory is true; otherwise it is the label alone.
C9_SecondTheoryText ==
    Called =>
        \A i \in 0..(Len(call.theory_bands) - 1) :
            LET b == call.theory_bands[i + 1]
                t == MidText(i)
            IN  /\ t.y = N * 100 - 40
                /\ t.x \in {b.val, b.val + 100}
                /\ ContainsPlusMinus(t.s, b) <=> (i = 1 /\ call.second_theory)
                /\ ~(i = 1 /\ call.second_theory) => t.s = <<b.label>>

C9_Witness ==
    /\ Called /\ Len(call.theory_bands) >= 2 /\ call.second_theory
    /\ ContainsPlusMinus(MidText(1).s, call.theory_bands[2])
    /\ MidText(0).s = <<call.theory_bands[1].label>>

\* C10: in any sequence of calls the figure a returning call saved is the one
\* it created and holds exactly what that call drew, nothing of an earlier call.
C10_SavedFigureIsOwn ==
    outcome = "returned" =>
        /\ OutputPath(call) \in DOMAIN files
        /\ files[OutputPath(call)] = fig
        /\ \A i \in 1..Len(figs) : figs[i].num # fig.num
        /\ Len(fig.spans) = Len(call.theory_bands)
        /\ \A i \in 1..Len(call.theory_bands) :
              /\ fig.spans[i].lo = call.theory_bands[i].val - call.theory_bands[i].err
              /\ fig.spans[i].hi = call.theory_bands[i].val + call.theory_bands[i].err
        /\ Len(fig.errorbars) = N
        /\ \A k \in 0..(N - 1) : fig.errorbars[N - k].x = call.results[k + 1].value
        /\ Len(fig.texts) = BandTextCount + 2 * N
        /\ Len(fig.hlines) = SepCount
        /\ fig.ylim = <<-50, N * 100 - 50>>

C10_Witness ==
    /\ outcome = "returned" /\ calls >= 2 /\ N >= 1
    /\ figs # <<>> /\ Gcf(figs).errorbars # <<>>
    /\ files[OutputPath(call)].num > Gcf(figs).num
====
